---- MODULE Spec2Model ----
(***************************************************************************)
(* Model of src/src/App.tsx: the React component App that turns a preset   *)
(* list of 2D wall segments into wall meshes and, when isEnclosedSpace     *)
(* accepts the segments, a UV-remapped floor mesh, inside a scene that the *)
(* effect of the component builds.                                         *)
(*                                                                         *)
(* Numbers.  Coordinates are JavaScript numbers; the model draws them from *)
(* a small set of integers.  Non-integer quantities are exact rationals    *)
(* <<numerator, denominator>>; Math.sqrt and Math.atan2 results are kept   *)
(* symbolically as records over their integer arguments.                   *)
(***************************************************************************)
EXTENDS Integers, Sequences, FiniteSets, TLC

VARIABLES
    data,           \* the module ./data: data[k] = [shape, size] of preset k
    numberOfWalls,  \* useState<number>(shapeOneSize)
    wallData,       \* useState<number[][]>(shapeOne): the segments
    wallDataRef,    \* identity of the array held in wallData (which preset's)
    updates,        \* state updates queued by setNumberOfWalls / setWallData
    pc,             \* "effect": the effect is pending; "render": a render is
                    \* scheduled; "idle": nothing pending
    mountRef,       \* mountRef.current
    sceneRef,       \* sceneRef.current: 0 (null) or an index into scenes
    scenes,         \* every THREE.Scene created so far: its children, in order
    canvas,         \* the renderer whose domElement is a child of the view
    displayed,      \* the scene last drawn on the canvas that is in the view
    randomState,    \* hidden state of Math.random
    returned        \* what the last call of isEnclosedSpace returned

vars == <<data, numberOfWalls, wallData, wallDataRef, updates, pc, mountRef,
          sceneRef, scenes, canvas, displayed, randomState, returned>>

---------------------------------------------------------------------------
(* Bounds of the model *)

\* longest segment sequence drawn as an input
MaxSegs == 3

\* number of scenes (effect runs) after which no further shape is selected
MaxScenes == 3

\* largest uniform scale factor applied to a shape
MaxScale == 3

\* coordinate values: two values, one of them of two digits
Coords == {1, 11}

Points == Coords \X Coords

\* a segment is the quadruple <<x1, y1, x2, y2>>
Segments == {<<p[1], p[2], q[1], q[2]>> : p \in Points, q \in Points}

SegmentSeqs == UNION {[1..m -> Segments] : m \in 0..MaxSegs}

\* the null a function returns in place of a mesh
Null == [type |-> "null"]

\* a ref that holds no element
NoElement == "null"

\* no call of isEnclosedSpace has returned yet
NotCalled == [called |-> FALSE, value |-> FALSE]

Returned(b) == [called |-> TRUE, value |-> b]

---------------------------------------------------------------------------
(* Exact rationals <<n, d>>, d > 0 *)

Rat(n, d) == <<n, d>>

RatAdd(a, b) == <<a[1] * b[2] + b[1] * a[2], a[2] * b[2]>>

RatMul(a, b) == <<a[1] * b[1], a[2] * b[2]>>

RatEq(a, b) == a[1] * b[2] = b[1] * a[2]

---------------------------------------------------------------------------
(* Math.random: a generator with hidden state; a draw is in [0, 1) *)

RandomValue(s) == Rat(s, 2)

RandomNext(s) == 1 - s

RECURSIVE RandomAfter(_, _)
RandomAfter(s, k) == IF k = 0 THEN s ELSE RandomAfter(RandomNext(s), k - 1)

---------------------------------------------------------------------------
(* isEnclosedSpace *)

\* variant of Endpoints: the loop stops one segment early
EndpointsSkipLast(wd) ==
    [i \in 1..(2 * (Len(wd) - 1)) |->
        IF i % 2 = 1 THEN <<wd[(i + 1) \div 2][1], wd[(i + 1) \div 2][2]>>
                     ELSE <<wd[i \div 2][3], wd[i \div 2][4]>>]

\* the flat list of endpoints: both endpoints of every segment, in order
Endpoints(wd) ==
    [i \in 1..(2 * Len(wd)) |->
        IF i % 2 = 1 THEN <<wd[(i + 1) \div 2][1], wd[(i + 1) \div 2][2]>>
                     ELSE <<wd[i \div 2][3], wd[i \div 2][4]>>]

\* variant of Key: the template string without its comma
KeyNoSeparator(point) == ToString(point[1]) \o ToString(point[2])

\* the Map key of a point: the template string `${point.x},${point.y}`
Key(point) == ToString(point[1]) \o "," \o ToString(point[2])

\* pointCounts after the forEach over endpoints[i..]
RECURSIVE PointCounts(_, _, _)
PointCounts(endpoints, i, map) ==
    IF i > Len(endpoints) THEN map
    ELSE LET key == Key(endpoints[i])
             old == IF key \in DOMAIN map THEN map[key] ELSE 0
         IN PointCounts(endpoints, i + 1,
                [k \in (DOMAIN map) \cup {key} |->
                    IF k = key THEN old + 1 ELSE map[k]])

EmptyMap == [k \in {} |-> 0]

\* variant of isEnclosedSpace: the check of numberOfWalls left out
isEnclosedSpaceNoMin(n, wd) ==
    LET pointCounts == PointCounts(Endpoints(wd), 1, EmptyMap)
    IN \A k \in DOMAIN pointCounts : pointCounts[k] = 2

\* isEnclosedSpace(wallData) with numberOfWalls = n
isEnclosedSpace(n, wd) ==
    IF n < 3 THEN FALSE
    ELSE LET pointCounts == PointCounts(Endpoints(wd), 1, EmptyMap)
         IN \A k \in DOMAIN pointCounts : pointCounts[k] = 2

---------------------------------------------------------------------------
(* Constants of App.tsx *)

GRID_SIZE == 100

GRID_DIVISIONS == 100

WALL_THICKNESS == Rat(1, 2)

WALL_HEIGHT == 3

wallMaterial == "wallMaterial"

floorMaterial == "floorMaterial"

\* symbolic Math.sqrt(v) and Math.atan2(dy, dx)
Sqrt(v) == [sqrt |-> v]

Atan2(dy, dx) == [atan2 |-> <<dy, dx>>]

---------------------------------------------------------------------------
(* createWall, createWalls *)

\* variant of createWall: the y term of the length left out
createWallNoY(x1, y1, x2, y2, s) ==
    LET length == Sqrt((x2 - x1) * (x2 - x1))
        angle  == Atan2(y2 - y1, x2 - x1)
    IN [type          |-> "wall",
        geometry      |-> [width  |-> length,
                           height |-> Rat(WALL_HEIGHT, 1),
                           depth  |-> WALL_THICKNESS],
        material      |-> wallMaterial,
        position      |-> <<Rat(x1 + x2, 2),
                            RatAdd(Rat(WALL_HEIGHT, 2),
                                   RatMul(RandomValue(s), Rat(1, 1000))),
                            Rat(y1 + y2, 2)>>,
        rotationY     |-> [neg |-> angle],
        castShadow    |-> TRUE,
        receiveShadow |-> TRUE]

\* createWall(x1, y1, x2, y2), called with Math.random in state s
createWall(x1, y1, x2, y2, s) ==
    LET length == Sqrt((x2 - x1) * (x2 - x1) + (y2 - y1) * (y2 - y1))
        angle  == Atan2(y2 - y1, x2 - x1)
    IN [type          |-> "wall",
        geometry      |-> [width  |-> length,
                           height |-> Rat(WALL_HEIGHT, 1),
                           depth  |-> WALL_THICKNESS],
        material      |-> wallMaterial,
        position      |-> <<Rat(x1 + x2, 2),
                            RatAdd(Rat(WALL_HEIGHT, 2),
                                   RatMul(RandomValue(s), Rat(1, 1000))),
                            Rat(y1 + y2, 2)>>,
        rotationY     |-> [neg |-> angle],
        castShadow    |-> TRUE,
        receiveShadow |-> TRUE]

\* the walls createWalls builds and adds to the scene, in the order of the
\* for-of loop; the i-th createWall call is the i-th draw of Math.random
createWalls(wd, s) ==
    [i \in 1..Len(wd) |->
        createWall(wd[i][1], wd[i][2], wd[i][3], wd[i][4],
                   RandomAfter(s, i - 1))]

---------------------------------------------------------------------------
(* createFloor *)

Max(S) == CHOOSE m \in S : \A x \in S : x <= m

Min(S) == CHOOSE m \in S : \A x \in S : m <= x

\* vertices: the first endpoint of every segment, in sequence order
FloorVertices(wd) == [i \in 1..Len(wd) |-> <<wd[i][1], wd[i][2]>>]

\* THREE.ShapeGeometry gives every vertex the uv (vertex.x, vertex.y)
ShapeGeometryUV(vertices) ==
    [i \in 1..Len(vertices) |-> <<Rat(vertices[i][1], 1), Rat(vertices[i][2], 1)>>]

\* the floor's world transform of the local vertex (x, y, 0): scale
\* (1, -1, 1), then the rotation by -PI/2 about x (cos = 0, sin = -1), then
\* the translation by position.y; the result is (x, position.y, y)
FloorWorld(v) ==
    LET sx == v[1]
        sy == 0 - v[2]
        sz == 0
        cos == 0
        sin == 0 - 1
    IN <<sx, sy * cos - sz * sin, sy * sin + sz * cos>>

\* bbox.getSize(size) of new THREE.Box3().setFromObject(floor): x and z
BoxSize(vertices) ==
    IF Len(vertices) = 0 THEN [x |-> 0, z |-> 0]
    ELSE LET world == {FloorWorld(vertices[i]) : i \in 1..Len(vertices)}
             xs == {w[1] : w \in world}
             zs == {w[3] : w \in world}
         IN [x |-> Max(xs) - Min(xs), z |-> Max(zs) - Min(zs)]

\* the loop over uvAttribute: (u, v) becomes (u * (size.x / 5), v * (size.z / 5))
RemapUV(uv, size) ==
    [i \in 1..Len(uv) |->
        <<RatMul(uv[i][1], Rat(size.x, 5)), RatMul(uv[i][2], Rat(size.z, 5))>>]

\* the mesh createFloor builds once isEnclosedSpace has accepted wd
FloorMesh(wd, s) ==
    LET vertices == FloorVertices(wd)
        size     == BoxSize(vertices)
    IN [type          |-> "floor",
        vertices      |-> vertices,
        uv            |-> RemapUV(ShapeGeometryUV(vertices), size),
        material      |-> floorMaterial,
        rotationX     |-> "-PI/2",
        scale         |-> <<1, 0 - 1, 1>>,
        positionY     |-> RatMul(RandomValue(s), Rat(1, 10)),
        receiveShadow |-> TRUE]

\* variant of createFloor: the test of isEnclosedSpace not negated
createFloorInverted(n, wd, s) ==
    LET enclosed == isEnclosedSpace(n, wd)
    IN IF enclosed
       THEN [floor |-> Null, enclosed |-> enclosed, random |-> s]
       ELSE [floor |-> FloorMesh(wd, s), enclosed |-> enclosed,
             random |-> RandomNext(s)]

\* createFloor(wallData) with numberOfWalls = n and Math.random in state s:
\* the floor (or Null), what isEnclosedSpace returned, Math.random's state
createFloor(n, wd, s) ==
    LET enclosed == isEnclosedSpace(n, wd)
    IN IF ~enclosed
       THEN [floor |-> Null, enclosed |-> enclosed, random |-> s]
       ELSE [floor |-> FloorMesh(wd, s), enclosed |-> enclosed,
             random |-> RandomNext(s)]

---------------------------------------------------------------------------
(* updateScene *)

\* updateScene() on the scene with the given children: the children after
\* createWalls and the optional scene.add(floor).  Its early returns, and
\* that of createWalls, are not taken: the effect calls it with
\* mountRef.current set and sceneRef.current just assigned.
updateScene(children, n, wd, s) ==
    LET walls == createWalls(wd, s)
        made  == createFloor(n, wd, RandomAfter(s, Len(wd)))
    IN [children |-> children \o walls \o
                     (IF made.floor.type # "null" THEN <<made.floor>> ELSE <<>>),
        returned |-> made.enclosed,
        random   |-> made.random]

---------------------------------------------------------------------------
(* The module ./data: four presets, each a segment sequence and its size *)

Preset(segs) == [shape |-> segs, size |-> Len(segs)]

Square == << <<1, 1, 11, 1>>, <<11, 1, 11, 11>>, <<11, 11, 1, 11>>, <<1, 11, 1, 1>> >>

Triangle == << <<1, 1, 11, 1>>, <<11, 1, 11, 11>>, <<11, 11, 1, 1>> >>

OpenTwo == << <<1, 1, 11, 1>>, <<11, 1, 11, 11>> >>

OpenThree == << <<1, 1, 11, 1>>, <<11, 1, 11, 11>>, <<11, 11, 1, 11>> >>

\* two walls, each given twice: the first repeated as it is, the second
\* repeated with its endpoints exchanged
TwoLoops == << <<1, 1, 11, 1>>, <<1, 1, 11, 1>>, <<1, 11, 11, 11>>, <<11, 11, 1, 11>> >>

PresetShapes == {Square, Triangle, OpenTwo, OpenThree, TwoLoops}

Shapes == 1..4

shapeOne == data[1].shape

shapeOneSize == data[1].size

---------------------------------------------------------------------------
(* The scene an effect run builds before updateScene *)

Fixtures ==
    << [type |-> "GridHelper", size |-> GRID_SIZE, divisions |-> GRID_DIVISIONS],
       [type |-> "AmbientLight"],
       [type |-> "DirectionalLight"] >>

---------------------------------------------------------------------------
(* Initial states: App has rendered once, its effect has not run yet *)

InitApp ==
    /\ numberOfWalls = shapeOneSize
    /\ wallData = shapeOne
    /\ wallDataRef = 1
    /\ updates = <<>>
    /\ pc = "effect"
    /\ mountRef = "div"
    /\ sceneRef = 0
    /\ scenes = <<>>
    /\ canvas = 0
    /\ displayed = 0
    /\ randomState \in {0, 1}
    /\ returned = NotCalled

\* the presets are any four of the preset shapes
Init ==
    /\ data \in [Shapes -> {Preset(s) : s \in PresetShapes}]
    /\ InitApp

\* the first preset is any segment sequence within the bounds
FnInit ==
    /\ \E s \in SegmentSeqs :
          data = [k \in Shapes |-> IF k = 1 THEN Preset(s) ELSE Preset(Square)]
    /\ InitApp

---------------------------------------------------------------------------
(* Actions *)

\* variant of OnClick: every handler sets the size of the first preset
OnClickFirstSize(k) ==
    << [hook |-> "numberOfWalls", value |-> data[1].size],
       [hook |-> "wallData", value |-> k] >>

\* the two state setters the onClick handler of preset k calls
OnClick(k) ==
    << [hook |-> "numberOfWalls", value |-> data[k].size],
       [hook |-> "wallData", value |-> k] >>

\* a click on the button of preset k
Click(k) ==
    /\ pc = "idle"
    /\ Len(scenes) < MaxScenes
    /\ updates' = updates \o OnClick(k)
    /\ pc' = "render"
    /\ UNCHANGED <<data, numberOfWalls, wallData, wallDataRef, mountRef,
                   sceneRef, scenes, canvas, displayed, randomState, returned>>

\* the value of a hook after the queued updates q, from its current value
RECURSIVE Reduce(_, _, _)
Reduce(q, hook, value) ==
    IF q = <<>> THEN value
    ELSE Reduce(Tail(q), hook, IF Head(q).hook = hook THEN Head(q).value ELSE value)

\* React renders App once with every queued update applied; the effect is
\* scheduled when updateScene changed, that is when numberOfWalls or the
\* wallData array changed
Render ==
    /\ pc = "render"
    /\ LET n   == Reduce(updates, "numberOfWalls", numberOfWalls)
           ref == Reduce(updates, "wallData", wallDataRef)
       IN /\ numberOfWalls' = n
          /\ wallDataRef' = ref
          /\ wallData' = data[ref].shape
          /\ pc' = IF n # numberOfWalls \/ ref # wallDataRef THEN "effect" ELSE "idle"
    /\ updates' = <<>>
    /\ UNCHANGED <<data, mountRef, sceneRef, scenes, canvas, displayed,
                   randomState, returned>>

\* variant of EffectScene: the scene in place is filled again
EffectSceneAccumulate(n, wd, s) ==
    updateScene(IF sceneRef = 0 THEN Fixtures ELSE scenes[sceneRef], n, wd, s)

\* the children of the scene one run of the effect creates and fills
EffectScene(n, wd, s) == updateScene(Fixtures, n, wd, s)

\* one run of the effect: the cleanup of the previous run, a new scene and
\* renderer, updateScene, the first animate() frame
Effect ==
    /\ pc = "effect"
    /\ IF mountRef = NoElement
       THEN UNCHANGED <<sceneRef, scenes, canvas, displayed, randomState, returned>>
       ELSE LET built == EffectScene(numberOfWalls, wallData, randomState)
                id    == Len(scenes) + 1
            IN /\ scenes' = Append(scenes, built.children)
               /\ sceneRef' = id
               /\ canvas' = id
               /\ displayed' = id
               /\ randomState' = built.random
               /\ returned' = Returned(built.returned)
    /\ pc' = "idle"
    /\ UNCHANGED <<data, numberOfWalls, wallData, wallDataRef, updates, mountRef>>

\* a frame of the animate loop the i-th effect run started: it draws scene i
\* on renderer i, whose canvas may no longer be in the view
Animate(i) ==
    /\ i \in 1..Len(scenes)
    /\ displayed' = IF canvas = i THEN i ELSE displayed
    /\ UNCHANGED <<data, numberOfWalls, wallData, wallDataRef, updates, pc,
                   mountRef, sceneRef, scenes, canvas, randomState, returned>>

Next ==
    \/ \E k \in Shapes : Click(k)
    \/ Render
    \/ Effect
    \/ \E i \in 1..MaxScenes : Animate(i)

Spec == Init /\ [][Next]_vars

FnNext ==
    \/ Effect
    \/ \E i \in 1..MaxScenes : Animate(i)

FnSpec == FnInit /\ [][FnNext]_vars

---------------------------------------------------------------------------
(* Definitions the properties are stated with *)

\* the children of the scene sceneRef refers to
CurrentScene == scenes[sceneRef]

WallsOf(children) == SelectSeq(children, LAMBDA o : o.type = "wall")

FloorsOf(children) == SelectSeq(children, LAMBDA o : o.type = "floor")

FirstPoint(seg) == <<seg[1], seg[2]>>

SecondPoint(seg) == <<seg[3], seg[4]>>

EndpointSet(wd) ==
    {FirstPoint(wd[i]) : i \in 1..Len(wd)} \cup {SecondPoint(wd[i]) : i \in 1..Len(wd)}

\* in how many segments p is an endpoint
SegmentsAt(p, wd) ==
    Cardinality({i \in 1..Len(wd) : FirstPoint(wd[i]) = p \/ SecondPoint(wd[i]) = p})

\* how many of the 2 * Len(wd) endpoints are p
Occurrences(p, wd) ==
    Cardinality({i \in 1..Len(wd) : FirstPoint(wd[i]) = p})
    + Cardinality({i \in 1..Len(wd) : SecondPoint(wd[i]) = p})

\* wd with its i-th and j-th segments exchanged
Swap(wd, i, j) ==
    [k \in 1..Len(wd) |-> IF k = i THEN wd[j] ELSE IF k = j THEN wd[i] ELSE wd[k]]

SharePoint(s1, s2) ==
    {FirstPoint(s1), SecondPoint(s1)} \cap {FirstPoint(s2), SecondPoint(s2)} # {}

\* the segments joined to those of S through chains of shared endpoints
RECURSIVE Reach(_, _)
Reach(wd, S) ==
    LET T == S \cup {j \in 1..Len(wd) : \E i \in S : SharePoint(wd[i], wd[j])}
    IN IF T = S THEN S ELSE Reach(wd, T)

\* all segments are connected through shared endpoints
SingleLoop(wd) == Len(wd) > 0 /\ Reach(wd, {1}) = 1..Len(wd)

SamePair(s1, s2) ==
    {FirstPoint(s1), SecondPoint(s1)} = {FirstPoint(s2), SecondPoint(s2)}

HasDuplicate(wd) ==
    \E i \in 1..Len(wd) : \E j \in 1..Len(wd) : i # j /\ SamePair(wd[i], wd[j])

ZeroLength(seg) == FirstPoint(seg) = SecondPoint(seg)

\* wd scaled uniformly by k
ScaleShape(k, wd) ==
    [i \in 1..Len(wd) |-> <<k * wd[i][1], k * wd[i][2], k * wd[i][3], k * wd[i][4]>>]

\* the extent of a floor's remapped uv coordinates, in fifths: uv
\* coordinates all have the denominator 5
UVRange(floor) ==
    LET us == {floor.uv[i][1][1] : i \in 1..Len(floor.uv)}
        vs == {floor.uv[i][2][1] : i \in 1..Len(floor.uv)}
    IN <<Max(us) - Min(us), Max(vs) - Min(vs)>>

---------------------------------------------------------------------------
(* Properties *)

\* C1, as stated: with the declared count equal to the sequence length,
\* isEnclosedSpace returns true iff there are at least 3 segments and every
\* endpoint occurs in exactly two segments.
C1_InExactlyTwoSegments ==
    (returned.called /\ numberOfWalls = Len(wallData)) =>
        (returned.value <=>
            (/\ Len(wallData) >= 3
             /\ \A p \in EndpointSet(wallData) : SegmentsAt(p, wallData) = 2))

\* C1, amended: with the declared count equal to the sequence length,
\* isEnclosedSpace returns true iff there are at least 3 segments and every
\* distinct endpoint occurs exactly twice in the list of the 2N endpoints (a
\* segment whose two endpoints coincide counts twice for its point).
C1_OccursExactlyTwice ==
    (returned.called /\ numberOfWalls = Len(wallData)) =>
        (returned.value <=>
            (/\ Len(wallData) >= 3
             /\ \A p \in EndpointSet(wallData) : Occurrences(p, wallData) = 2))

\* C1 witness: isEnclosedSpace has accepted three segments one of which has
\* coinciding endpoints.
C1_Witness ==
    /\ returned.called
    /\ returned.value
    /\ Len(wallData) = 3
    /\ \E i \in 1..Len(wallData) : ZeroLength(wallData[i])
    /\ \E i \in 1..Len(wallData) : ~ZeroLength(wallData[i])

\* C2: updateScene adds exactly one floor mesh when isEnclosedSpace reports
\* the current segments enclosed, and none when it does not.
C2_FloorGating ==
    sceneRef # 0 =>
        Len(FloorsOf(CurrentScene)) =
            (IF isEnclosedSpace(numberOfWalls, wallData) THEN 1 ELSE 0)

\* C2 witness: a scene built for enclosed segments holds a floor.
C2_Witness ==
    /\ sceneRef # 0
    /\ isEnclosedSpace(numberOfWalls, wallData)
    /\ Len(FloorsOf(CurrentScene)) = 1

\* C3: the scene holds one wall per segment, the i-th built from the i-th
\* segment with the Euclidean length, height 3 and thickness 0.5, whether or
\* not the segments are enclosed.
C3_WallCount ==
    sceneRef # 0 =>
        LET walls == WallsOf(CurrentScene)
        IN /\ Len(walls) = Len(wallData)
           /\ \A i \in 1..Len(walls) :
                LET dx == wallData[i][3] - wallData[i][1]
                    dy == wallData[i][4] - wallData[i][2]
                IN /\ walls[i].geometry.width = Sqrt(dx * dx + dy * dy)
                   /\ RatEq(walls[i].geometry.height, Rat(3, 1))
                   /\ RatEq(walls[i].geometry.depth, Rat(1, 2))
                   /\ walls[i].position[1] = Rat(wallData[i][1] + wallData[i][3], 2)
                   /\ walls[i].position[3] = Rat(wallData[i][2] + wallData[i][4], 2)

\* C3 witness: two open segments gave two walls and no floor.
C3_Witness ==
    /\ sceneRef # 0
    /\ Len(wallData) = 2
    /\ wallData[1][2] # wallData[1][4]
    /\ Len(WallsOf(CurrentScene)) = 2
    /\ Len(FloorsOf(CurrentScene)) = 0

\* C4: with the declared count equal to the sequence length, isEnclosedSpace
\* returns false for fewer than 3 segments, whatever their endpoints.
C4_MinimumSize ==
    (returned.called /\ numberOfWalls = Len(wallData) /\ Len(wallData) < 3) =>
        ~returned.value

\* C4 witness: isEnclosedSpace was called on two segments whose endpoints all
\* occur twice.
C4_Witness ==
    /\ returned.called
    /\ Len(wallData) = 2
    /\ \A p \in EndpointSet(wallData) : Occurrences(p, wallData) = 2
    /\ ~returned.value

\* C5: exchanging any two segments of the sequence (every reordering is a
\* composition of such exchanges) leaves the result of isEnclosedSpace
\* unchanged.
C5_PermutationInvariance ==
    returned.called =>
        \A i \in 1..Len(wallData) : \A j \in (i + 1)..Len(wallData) :
            isEnclosedSpace(numberOfWalls, Swap(wallData, i, j)) = returned.value

\* C5 witness: an accepted sequence that an exchange of two segments changes.
C5_Witness ==
    /\ returned.called
    /\ returned.value
    /\ \E i \in 1..Len(wallData) : \E j \in 1..Len(wallData) :
          Swap(wallData, i, j) # wallData

\* C6: once a selection has been rendered and its effect has run, the scene
\* sceneRef refers to, which is the one drawn on the canvas in the view,
\* holds the fixtures, exactly the walls of the current segments, a floor
\* built from them iff they are reported enclosed, and nothing else.
C6_SceneRebuilt ==
    (pc = "idle" /\ sceneRef # 0) =>
        LET walls  == WallsOf(CurrentScene)
            floors == FloorsOf(CurrentScene)
        IN /\ displayed = sceneRef
           /\ canvas = sceneRef
           /\ Len(walls) = Len(wallData)
           /\ \A i \in 1..Len(walls) :
                /\ walls[i].position[1] = Rat(wallData[i][1] + wallData[i][3], 2)
                /\ walls[i].position[3] = Rat(wallData[i][2] + wallData[i][4], 2)
                /\ walls[i].rotationY.neg.atan2 =
                       <<wallData[i][4] - wallData[i][2], wallData[i][3] - wallData[i][1]>>
           /\ Len(floors) = (IF isEnclosedSpace(numberOfWalls, wallData) THEN 1 ELSE 0)
           /\ \A i \in 1..Len(floors) :
                floors[i].vertices = [j \in 1..Len(wallData) |-> FirstPoint(wallData[j])]
           /\ Len(CurrentScene) = Len(Fixtures) + Len(walls) + Len(floors)

\* C6 witness: the scene of a shape without a floor, selected after a shape
\* whose scene held a floor and more walls.
C6_Witness ==
    /\ pc = "idle"
    /\ sceneRef >= 2
    /\ Len(FloorsOf(scenes[sceneRef - 1])) = 1
    /\ Len(WallsOf(scenes[sceneRef - 1])) > Len(wallData)
    /\ Len(FloorsOf(CurrentScene)) = 0

\* C7, as stated: whenever isEnclosedSpace returns true, all segments are
\* connected through shared endpoints into a single loop.
C7_SingleLoop ==
    (returned.called /\ returned.value) => SingleLoop(wallData)

\* C8, as stated: a sequence holding two segments with the same pair of
\* endpoints is reported not enclosed.
C8_DuplicatesFail ==
    (returned.called /\ HasDuplicate(wallData)) => ~returned.value

\* C9: whenever the effect is about to run updateScene, numberOfWalls is the
\* declared size of the preset whose segments are in wallData.
C9_AtomicSwap ==
    pc = "effect" =>
        /\ numberOfWalls = data[wallDataRef].size
        /\ wallData = data[wallDataRef].shape

\* C9 witness: the effect is about to rebuild for a selected preset whose
\* declared size and segments both differ from those of the scene in place.
C9_Witness ==
    /\ pc = "effect"
    /\ sceneRef # 0
    /\ Len(WallsOf(CurrentScene)) # numberOfWalls
    /\ data[wallDataRef].size # data[1].size
    /\ updates = <<>>

\* C10, as stated: for an enclosed shape scaled uniformly by k, the extent of
\* the remapped uv coordinates is k times that of the unscaled shape.
C10_UVScalesLinearly ==
    (pc = "idle" /\ sceneRef # 0) =>
        \A i \in 1..Len(FloorsOf(CurrentScene)) : \A k \in 1..MaxScale :
            LET base   == UVRange(FloorsOf(CurrentScene)[i])
                scaled == createFloor(numberOfWalls, ScaleShape(k, wallData),
                                      randomState).floor
            IN UVRange(scaled) = <<k * base[1], k * base[2]>>

====
